---- MODULE Spec2Model ----
(***************************************************************************)
(* A model of the Sentinel-2 mosaic pipeline: the four command line        *)
(* entry points (download_scenes, mask_scenes, medians, calculate_tc) and  *)
(* the library functions they call (utils/download.py, utils/mask.py,      *)
(* utils/spatial/raster.py, utils/spatial/geom.py).                        *)
(*                                                                         *)
(* Conventions.                                                            *)
(*  - Longitudes and latitudes are integers in tenths of a degree, so the  *)
(*    default AOI of download_scenes.py is <<-1535, 705, -1530, 710>>.     *)
(*  - A float raster value is an integer, NaN is the value NaN below.      *)
(*    In the compositor values are kept doubled ("x2") so that the mean    *)
(*    of two integers stays an integer.                                    *)
(*  - Python's None is the empty tuple <<>> (None below).                  *)
(*  - download_scenes.py imports download_year and medians.py imports      *)
(*    save_to_to_tif; utils/ defines process_year and save_da_to_tif.      *)
(*    The model resolves the two names to these functions.                 *)
(***************************************************************************)
EXTENDS Integers, Sequences, FiniteSets, TLC

None == <<>>

\* ---------------------------------------------------------------- bounds
\* longest result list the catalog returns for one year
MaxScenes == 2
\* largest class value the classifier returns (0 = clear)
MaxClass == 1
\* most masked scenes in one year's directory
MaxTifs == 3

\* ------------------------------------------------------- program constants
YearsStart == 2024
YearsEnd == 2025
YEARS == YearsStart .. YearsEnd

BAND_ORDER == <<"B02_10m", "B03_10m", "B04_10m", "B08_10m", "B11_20m", "B12_20m">>
BAND_LABELS == <<"Blue", "Green", "Red", "NIR", "SWIR1", "SWIR2">>

\* the default --bbox-* options, in tenths of a degree
BBOX_LL == <<-1535, 705, -1530, 710>>

\* coverage_ratio < 0.4, as a percentage
MinCoveragePct == 40

\* clip(0, 10000)
ClipMax == 10000

NaN == -99999

\* ------------------------------------------------------------- sequences
Range(s) == {s[i] : i \in DOMAIN s}

RECURSIVE SelectIdx(_, _, _)
\* [x for x in s if Test(x)], as the sequence of the kept elements
SelectIdx(s, keep, i) ==
    IF i > Len(s) THEN <<>>
    ELSE IF s[i] \in keep THEN <<s[i]>> \o SelectIdx(s, keep, i + 1)
         ELSE SelectIdx(s, keep, i + 1)

Min2(a, b) == IF a <= b THEN a ELSE b
Max2(a, b) == IF a >= b THEN a ELSE b
SetMin(S) == CHOOSE m \in S : \A x \in S : m <= x
SetMax(S) == CHOOSE m \in S : \A x \in S : m >= x

\* ---------------------------------------------------------------- geometry
\* pyproj's Transformer EPSG:4326 -> EPSG:326zz/327zz, always_xy: the central
\* meridian of the zone, and a projection whose east-west scale shrinks
\* linearly towards the pole (meridians converge).  It maps meridians and
\* parallels to straight lines, so the image of a lon/lat rectangle is the
\* trapezoid of its projected corners.
PoleLat == 900
CentralMeridian(epsg) == -1800 + 60 * (epsg % 100) - 30
tx_transform(epsg, lon, lat) ==
    <<(lon - CentralMeridian(epsg)) * (PoleLat - lat), 100 * lat>>

\* twice the area of the projected rectangle r = <<w, s, e, n>> (shoelace
\* formula on the four projected corners, as shapely's area of the polygon
\* with transformed vertices)
Area2(epsg, r) ==
    LET a == tx_transform(epsg, r[1], r[2])
        b == tx_transform(epsg, r[3], r[2])
        c == tx_transform(epsg, r[3], r[4])
        d == tx_transform(epsg, r[1], r[4])
        sh == (a[1] * b[2] - b[1] * a[2]) + (b[1] * c[2] - c[1] * b[2])
              + (c[1] * d[2] - d[1] * c[2]) + (d[1] * a[2] - a[1] * d[2])
    IN  IF sh >= 0 THEN sh ELSE -sh

\* intersection of two lon/lat rectangles, None when empty
RectInter(f, a) ==
    LET w == Max2(f[1], a[1])
        s == Max2(f[2], a[2])
        e == Min2(f[3], a[3])
        n == Min2(f[4], a[4])
    IN  IF w > e \/ s > n THEN None ELSE <<w, s, e, n>>

\* the ratio inter.area / geom_proj.area, over the footprint instead of the AOI
projected_intersection_ratio_OverFootprint(item_geom, aoi_bounds, epsg_out) ==
    IF aoi_bounds = None \/ item_geom = None THEN [raised |-> TRUE, num |-> 0, den |-> 1]
    ELSE LET inter == RectInter(item_geom, aoi_bounds)
         IN  IF inter = None THEN [raised |-> FALSE, num |-> 0, den |-> 1]
             ELSE [raised |-> FALSE, num |-> Area2(epsg_out, inter),
                   den |-> Area2(epsg_out, item_geom)]

\* projected_intersection_ratio: the ratio inter.area / aoi_proj.area as the
\* fraction num / den, or raised (box(*None) and shape(None) raise)
projected_intersection_ratio(item_geom, aoi_bounds, epsg_out) ==
    IF aoi_bounds = None \/ item_geom = None THEN [raised |-> TRUE, num |-> 0, den |-> 1]
    ELSE LET inter == RectInter(item_geom, aoi_bounds)
         IN  IF inter = None THEN [raised |-> FALSE, num |-> 0, den |-> 1]
             ELSE [raised |-> FALSE, num |-> Area2(epsg_out, inter),
                   den |-> Area2(epsg_out, aoi_bounds)]

\* coverage_ratio <= 0.4
BelowThreshold_Inclusive(ratio) == 100 * ratio.num <= MinCoveragePct * ratio.den

\* coverage_ratio < 0.4
BelowThreshold(ratio) == 100 * ratio.num < MinCoveragePct * ratio.den

\* the bbox_ll of detect_epsg_and_bounds
UnionBBox(items) ==
    <<SetMin({items[i].bbox[1] : i \in DOMAIN items}),
      SetMin({items[i].bbox[2] : i \in DOMAIN items}),
      SetMax({items[i].bbox[3] : i \in DOMAIN items}),
      SetMax({items[i].bbox[4] : i \in DOMAIN items})>>

RECURSIVE FirstEpsg(_, _)
\* the loop over items that stops at the first "proj:epsg": <<epsg>>, or None
FirstEpsg(items, i) ==
    IF i > Len(items) THEN None
    ELSE IF "proj_epsg" \in DOMAIN items[i].properties
         THEN <<items[i].properties.proj_epsg>>
         ELSE FirstEpsg(items, i + 1)

\* the northern code whatever the latitude
UtmEpsg_North(bbox_ll) == 32600 + ((bbox_ll[1] + bbox_ll[3] + 3600) \div 120) + 1

\* zone = floor((lon + 180) / 6) + 1 of the centre of bbox_ll
UtmEpsg(bbox_ll) ==
    LET zone == ((bbox_ll[1] + bbox_ll[3] + 3600) \div 120) + 1
    IN  IF bbox_ll[2] + bbox_ll[4] >= 0 THEN 32600 + zone ELSE 32700 + zone

\* detect_epsg_and_bounds without the test of the first two lines: it goes on
\* with the override, or with nothing, for an empty list
detect_epsg_and_bounds_Unchecked(items, bbox_ll_override) ==
    IF items = <<>>
    THEN [raised |-> FALSE, epsg |-> 0, bbox_ll |-> bbox_ll_override, bounds_proj |-> None]
    ELSE LET bbox_ll == IF bbox_ll_override = None THEN UnionBBox(items)
                        ELSE bbox_ll_override
             declared == FirstEpsg(items, 1)
             epsg == IF declared # None THEN declared[1] ELSE UtmEpsg(bbox_ll)
             p1 == tx_transform(epsg, bbox_ll[1], bbox_ll[2])
             p2 == tx_transform(epsg, bbox_ll[3], bbox_ll[4])
         IN  [raised |-> FALSE, epsg |-> epsg, bbox_ll |-> bbox_ll,
              bounds_proj |-> <<Min2(p1[1], p2[1]), Min2(p1[2], p2[2]),
                                Max2(p1[1], p2[1]), Max2(p1[2], p2[2])>>]

\* detect_epsg_and_bounds(items, bbox_ll_override): raised on no items,
\* else epsg, bbox_ll, bounds_proj
detect_epsg_and_bounds(items, bbox_ll_override) ==
    IF items = <<>> THEN [raised |-> TRUE]
    ELSE LET bbox_ll == IF bbox_ll_override = None THEN UnionBBox(items)
                        ELSE bbox_ll_override
             declared == FirstEpsg(items, 1)
             epsg == IF declared # None THEN declared[1] ELSE UtmEpsg(bbox_ll)
             p1 == tx_transform(epsg, bbox_ll[1], bbox_ll[2])
             p2 == tx_transform(epsg, bbox_ll[3], bbox_ll[4])
         IN  [raised |-> FALSE, epsg |-> epsg, bbox_ll |-> bbox_ll,
              bounds_proj |-> <<Min2(p1[1], p2[1]), Min2(p1[2], p2[2]),
                                Max2(p1[1], p2[1]), Max2(p1[2], p2[2])>>]


\* ------------------------------------------------------------------ scenes
\* The scene records the catalog can return (pystac Items): id, properties
\* ("proj_epsg" is optional), bbox, footprint geometry (a lon/lat rectangle,
\* or None), the asset names present, and base, the level of its pixel values.
ItemG == [id |-> "G", properties |-> [datetime |-> "0801", proj_epsg |-> 32605],
          bbox |-> <<-1540, 700, -1525, 715>>, geometry |-> <<-1540, 700, -1525, 715>>,
          assets |-> Range(BAND_ORDER), base |-> 1000]
ItemL == [id |-> "L", properties |-> [datetime |-> "0802"],
          bbox |-> <<-1540, 700, -1533, 709>>, geometry |-> <<-1540, 700, -1533, 709>>,
          assets |-> Range(BAND_ORDER), base |-> 2000]
ItemE == [id |-> "E", properties |-> [datetime |-> "0803"],
          bbox |-> <<-1542, 702, -1533, 715>>, geometry |-> <<-1542, 702, -1533, 715>>,
          assets |-> Range(BAND_ORDER), base |-> 3000]
ItemB == [id |-> "B", properties |-> [datetime |-> "0804"],
          bbox |-> <<-1540, 700, -1525, 715>>, geometry |-> None,
          assets |-> Range(BAND_ORDER), base |-> 4000]
ItemC == [id |-> "C", properties |-> [datetime |-> "0805"],
          bbox |-> <<-1540, 700, -1525, 716>>, geometry |-> <<-1540, 700, -1525, 716>>,
          assets |-> {"B11_20m", "B12_20m"}, base |-> 5000]
ItemM == [id |-> "M", properties |-> [datetime |-> "0806", proj_epsg |-> 32604],
          bbox |-> <<-1540, 700, -1525, 715>>, geometry |-> <<-1540, 700, -1525, 715>>,
          assets |-> Range(BAND_ORDER) \ {"B08_10m"}, base |-> 6000]
ItemN == [id |-> "N", properties |-> [datetime |-> "0807"],
          bbox |-> <<-1540, 700, -1525, 715>>, geometry |-> <<-1540, 700, -1525, 715>>,
          assets |-> {}, base |-> 7000]
Pool == <<ItemL, ItemE, ItemG, ItemM, ItemB, ItemC, ItemN>>

\* what search_s2_stac can return for one year: the runs of at most MaxScenes
\* consecutive records of Pool (taken cyclically), and the empty list
Window(start, n) == [k \in 1 .. n |-> Pool[((start + k - 2) % Len(Pool)) + 1]]
Catalogs == {<<>>} \cup {Window(s, n) : s \in 1 .. Len(Pool), n \in 1 .. MaxScenes}

\* ----------------------------------------------------------------- rasters
\* A band read from an asset and clipped to the projected AOI bounds: its
\* grid (pixel size res, origin x0/y0, h rows, w columns) and its pixel
\* values in row-major order.  The 10 m bands of a scene share one grid of
\* two pixels, the 20 m bands one grid of a single pixel over the same ground.
BandIndex(bname) == CHOOSE k \in DOMAIN BAND_ORDER : BAND_ORDER[k] = bname
Grid10 == [res |-> 10, x0 |-> 0, y0 |-> 0, h |-> 1, w |-> 2]
Grid20 == [res |-> 20, x0 |-> 0, y0 |-> 0, h |-> 1, w |-> 1]
NPix(grid) == grid.h * grid.w
DN(it, k, p) ==
    IF it.id = "G" /\ k = 3 /\ p = 2 THEN 12000
    ELSE IF it.id = "E" /\ k = 1 /\ p = 1 THEN NaN
    ELSE it.base + 100 * k + p
\* rioxarray.open_rasterio(href, masked=True).squeeze().rio.clip_box(*bounds_out)
open_clip(it, bname) ==
    LET g == IF BandIndex(bname) <= 4 THEN Grid10 ELSE Grid20
    IN  [grid |-> g, data |-> [p \in 1 .. NPix(g) |-> DN(it, BandIndex(bname), p)]]

\* da20.rio.reproject_match(ref): the band on the grid of ref.  Each pixel of
\* ref takes the value of the source pixel over it (what bilinear resampling
\* gives when the source has one pixel per row of ref).
reproject_match(da, ref) ==
    [grid |-> ref.grid,
     data |-> [p \in 1 .. NPix(ref.grid) |->
                 da.data[(((p - 1) * NPix(da.grid)) \div NPix(ref.grid)) + 1]]]

\* the band names of band_order that end with the suffix and are assets of it
bands_10m == SubSeq(BAND_ORDER, 1, 4)
bands_20m == SubSeq(BAND_ORDER, 5, 6)
Present(it, names) == SelectIdx(names, it.assets, 1)

\* ---------------------------------------------------------------- masking
\* predict_from_array's possible results: an array with its shape and its
\* channels (each a row-major class map); a 2-D array has one channel.  The
\* first and last channel of a three-channel result are taken equal, and the
\* results of another shape are all clear.
ClassMaps(n) == [1 .. n -> 0 .. MaxClass]
Predictions(h, w) ==
    {[shape |-> <<h, w>>, ch |-> <<m>>] : m \in ClassMaps(h * w)}
    \cup {[shape |-> <<1, h, w>>, ch |-> <<m>>] : m \in ClassMaps(h * w)}
    \cup {[shape |-> <<3, h, w>>, ch |-> <<a, b, a>>] :
            a \in ClassMaps(h * w), b \in ClassMaps(h * w)}
    \cup {[shape |-> <<2, h, w>>, ch |-> <<[p \in 1 .. h * w |-> 0], [p \in 1 .. h * w |-> 0]>>],
          [shape |-> <<h, w + 1>>, ch |-> <<[p \in 1 .. h * (w + 1) |-> 0]>>]}

\* the channel of index 0 of a three-channel result instead of index 1
NormalizeMask_Channel0(pred_mask) ==
    IF Len(pred_mask.shape) = 3
    THEN IF pred_mask.shape[1] \in {1, 3}
         THEN [shape |-> Tail(pred_mask.shape), ch |-> <<pred_mask.ch[1]>>]
         ELSE pred_mask
    ELSE pred_mask

\* "Handle shape (1, H, W) or (3, H, W)"
NormalizeMask(pred_mask) ==
    IF Len(pred_mask.shape) = 3
    THEN IF pred_mask.shape[1] = 1
         THEN [shape |-> Tail(pred_mask.shape), ch |-> <<pred_mask.ch[1]>>]
         ELSE IF pred_mask.shape[1] = 3
              THEN [shape |-> Tail(pred_mask.shape), ch |-> <<pred_mask.ch[2]>>]
              ELSE pred_mask
    ELSE pred_mask

\* pred_mask.shape != (scene.sizes["y"], scene.sizes["x"])
ShapeMismatch(pred_mask, scene) == pred_mask.shape # <<scene.grid.h, scene.grid.w>>

\* mask_keep = pred_mask == 0
MaskKeep(pred_mask) == [p \in DOMAIN pred_mask.ch[1] |-> pred_mask.ch[1][p] = 0]

\* scene.where(mask_da): the value where kept, NaN elsewhere, in every band
Where(scene, mask_keep) ==
    [scene EXCEPT !.data = [b \in DOMAIN scene.data |->
        [p \in DOMAIN scene.data[b] |->
            IF mask_keep[p] THEN scene.data[b][p] ELSE NaN]]]

\* ------------------------------------------------------------ quantization
\* clip(0, None): no upper bound
Clip_NoUpper(v) == IF v = NaN THEN NaN ELSE IF v < 0 THEN 0 ELSE v
Clip(v) == IF v = NaN THEN NaN ELSE IF v < 0 THEN 0 ELSE IF v > ClipMax THEN ClipMax ELSE v
FillNa(v) == IF v = NaN THEN 0 ELSE v
\* scene.fillna(0).clip(0, 10000).astype("uint16")
QuantizeScene(scene) ==
    [scene EXCEPT !.data = [b \in DOMAIN scene.data |->
        [p \in DOMAIN scene.data[b] |-> Clip(FillNa(scene.data[b][p])) % 65536]]]

\* the pieces of the scene: the 10 m bands as read, then the 20 m bands
\* matched to ref, the first 10 m band read
Pieces(it) ==
    LET p10 == Present(it, bands_10m)
        p20 == Present(it, bands_20m)
        ref == open_clip(it, p10[1])
    IN  [k \in 1 .. Len(p10) |-> open_clip(it, p10[k])]
        \o [k \in 1 .. Len(p20) |-> reproject_match(open_clip(it, p20[k]), ref)]

\* ref is None when the first 20 m band is matched: no 10 m band was read
NoReference(it) == Present(it, bands_10m) = <<>> /\ Present(it, bands_20m) # <<>>

\* the number of bands read before reproject_match(None) raises
FetchesBeforeNoReference == 1

\* xr.concat(pieces, dim="band").assign_coords(band=BAND_LABELS)
ConcatScene(pieces) ==
    [grid |-> pieces[1].grid, data |-> [k \in DOMAIN pieces |-> pieces[k].data]]

\* ------------------------------------------------------------------- state
VARIABLES
    script,      \* the entry point that runs: "download", "mask", "medians", "tc"
    main_pc,     \* where main() is: "run", "raising", "done", "raised"
    files,       \* storage: path |-> raster
    bbox_ll,     \* download: the bbox_ll argument of process_year
    fut,         \* download: the executor's future of each year, and what the year printed
    all_counts,  \* download: main's all_counts
    py,          \* download: the frame of process_year for each year
    loc          \* mask, medians, tc: the locals of main and of the call it is in

vars == <<script, main_pc, files, bbox_ll, fut, all_counts, py, loc>>

\* the --n-parallel default
n_parallel == 1

\* A frame of process_year: its locals, and in outcomes what the loop has
\* printed for each scene so far, with the number of bands it read for it.
IdleFrame == [pc |-> "idle", items |-> <<>>, i |-> 0, n_ok |-> 0, epsg_out |-> 0,
              bbox_ll_used |-> None, bounds_out |-> None, scene |-> None, pred |-> None, masked |-> FALSE,
              nfetch |-> 0, outcomes |-> <<>>]

\* out_dir / str(year) / f"{it_orig.id}_{scene_date}_masked.tif"
ScenePath(year, it) == <<"scenes_raw", year, it.id, it.properties.datetime>>

Put(f, path, content) == [q \in DOMAIN f \cup {path} |-> IF q = path THEN content ELSE f[q]]

Entry(it, outcome, fr) ==
    [id |-> it.id, outcome |-> outcome, masked |-> fr.masked, nfetch |-> fr.nfetch]

\* The loop prints the outcome of its scene and moves on to the next one.
\* "Scene failed:" prints the exception, here the step that raised it.
Failures == {"failed_fetch", "failed_no_reference", "failed_labels", "failed_classifier",
             "failed_shape", "failed_write"}
NextScene(fr, outcome) ==
    [fr EXCEPT !.pc = "score", !.i = fr.i + 1, !.scene = None, !.pred = None,
               !.masked = FALSE, !.nfetch = 0,
               !.outcomes = Append(@, Entry(fr.items[fr.i], outcome, fr))]

\* the scene raster process_year writes for a record when masking failed
RawScene(it) == QuantizeScene(ConcatScene(Pieces(it)))

\* the output directory an earlier run of download_scenes left behind
EarlierDownload == Put(<<>>, ScenePath(YearsStart, ItemG), RawScene(ItemG))

InitDownload ==
    /\ script = "download"
    /\ main_pc = "run"
    /\ files \in {<<>>, EarlierDownload}
    /\ bbox_ll \in {None, BBOX_LL}
    /\ fut = [y \in YEARS |-> [state |-> "queued", n |-> 0, note |-> ""]]
    /\ all_counts = <<>>
    /\ py = [y \in YEARS |-> IdleFrame]
    /\ loc = None

\* ------------------------------------------------- download_scenes.py: main
\* a worker of the pool takes the next submitted year
StartYear(y) ==
    /\ script = "download"
    /\ main_pc \in {"run", "raising"}
    /\ fut[y].state = "queued"
    /\ \A z \in YEARS : z < y => fut[z].state # "queued"
    /\ Cardinality({z \in YEARS : fut[z].state = "running"}) < n_parallel
    /\ fut' = [fut EXCEPT ![y].state = "running"]
    /\ py' = [py EXCEPT ![y].pc = "search"]
    /\ UNCHANGED <<script, main_pc, files, bbox_ll, all_counts, loc>>

\* for future in as_completed(futures): yr, n = future.result()
Collect(y) ==
    /\ script = "download"
    /\ main_pc = "run"
    /\ fut[y].state = "returned"
    /\ all_counts' = Put(all_counts, y, fut[y].n)
    /\ fut' = [fut EXCEPT ![y].state = "collected"]
    /\ UNCHANGED <<script, main_pc, files, bbox_ll, py, loc>>

\* future.result() re-raises the year's exception: main leaves the with block
CollectRaise(y) ==
    /\ script = "download"
    /\ main_pc = "run"
    /\ fut[y].state = "raised"
    /\ main_pc' = "raising"
    /\ UNCHANGED <<script, files, bbox_ll, fut, all_counts, py, loc>>

\* the executor's __exit__ waits for every submitted year, then the exception
\* leaves main
Propagate ==
    /\ script = "download"
    /\ main_pc = "raising"
    /\ \A y \in YEARS : fut[y].state \notin {"queued", "running"}
    /\ main_pc' = "raised"
    /\ UNCHANGED <<script, files, bbox_ll, fut, all_counts, py, loc>>

\* "Done. Scenes written per year:"
Summary ==
    /\ script = "download"
    /\ main_pc = "run"
    /\ \A y \in YEARS : fut[y].state = "collected"
    /\ main_pc' = "done"
    /\ UNCHANGED <<script, files, bbox_ll, fut, all_counts, py, loc>>

\* ------------------------------------------- utils/download.py: process_year
RaiseYear(y) ==
    /\ fut' = [fut EXCEPT ![y].state = "raised"]
    /\ py' = [py EXCEPT ![y] = IdleFrame]

\* search_s2_stac, prefer_s3_assets, detect_epsg_and_bounds, out_dir.mkdir
Search(y) ==
    /\ script = "download"
    /\ py[y].pc = "search"
    /\ \/ \* the catalog request fails
          /\ RaiseYear(y)
          /\ UNCHANGED <<script, main_pc, files, bbox_ll, all_counts, loc>>
       \/ \E items \in Catalogs :
            /\ IF items = <<>>
               THEN \* "No items for this year."
                    /\ fut' = [fut EXCEPT ![y] = [state |-> "returned", n |-> 0,
                                                  note |-> "no_items"]]
                    /\ py' = [py EXCEPT ![y] = IdleFrame]
               ELSE LET d == detect_epsg_and_bounds(items, bbox_ll)
                    IN  /\ py' = [py EXCEPT ![y] =
                                [IdleFrame EXCEPT !.pc = "score", !.items = items, !.i = 1,
                                                  !.epsg_out = d.epsg,
                                                  !.bbox_ll_used = d.bbox_ll,
                                                  !.bounds_out = d.bounds_proj]]
                        /\ UNCHANGED fut
            /\ UNCHANGED <<script, main_pc, files, bbox_ll, all_counts, loc>>

\* the loop is over: return n_ok
ReturnYear(y) ==
    /\ script = "download"
    /\ py[y].pc = "score"
    /\ py[y].i > Len(py[y].items)
    /\ fut' = [fut EXCEPT ![y] = [state |-> "returned", n |-> py[y].n_ok, note |-> ""]]
    /\ py' = [py EXCEPT ![y] = IdleFrame]
    /\ UNCHANGED <<script, main_pc, files, bbox_ll, all_counts, loc>>

\* the AOI intersection check of one scene, before the try block
Score(y) ==
    /\ script = "download"
    /\ py[y].pc = "score"
    /\ py[y].i <= Len(py[y].items)
    /\ LET fr == py[y]
           it == fr.items[fr.i]
           coverage_ratio == projected_intersection_ratio(it.geometry, bbox_ll, fr.epsg_out)
       IN  IF coverage_ratio.raised
           THEN RaiseYear(y)
           ELSE IF BelowThreshold(coverage_ratio)
                THEN \* "Scene skipped due to low AOI coverage."
                     /\ py' = [py EXCEPT ![y] = NextScene(fr, "low_coverage")]
                     /\ UNCHANGED fut
                ELSE /\ py' = [py EXCEPT ![y].pc = "load"]
                     /\ UNCHANGED fut
    /\ UNCHANGED <<script, main_pc, files, bbox_ll, all_counts, loc>>

\* the band loops with the labels given to however many bands were read
LoadBands_Relabel(y) ==
    /\ script = "download"
    /\ py[y].pc = "load"
    /\ LET fr == py[y]
           it == fr.items[fr.i]
           n == Len(Present(it, bands_10m)) + Len(Present(it, bands_20m))
       IN  \/ \* open_rasterio raises at the k-th band: "Scene failed"
              \E k \in 1 .. n :
                py' = [py EXCEPT ![y] = NextScene([fr EXCEPT !.nfetch = k], "failed_fetch")]
           \/ \* every band is read
              IF NoReference(it)
              THEN py' = [py EXCEPT ![y] =
                        NextScene([fr EXCEPT !.nfetch = FetchesBeforeNoReference],
                                  "failed_no_reference")]
              ELSE IF n = 0
                   THEN \* "No usable bands."
                        py' = [py EXCEPT ![y] = NextScene(fr, "no_bands")]
                   ELSE py' = [py EXCEPT ![y] =
                                [fr EXCEPT !.nfetch = n, !.pc = "mask",
                                           !.scene = ConcatScene(Pieces(it))]]
    /\ UNCHANGED <<script, main_pc, files, bbox_ll, fut, all_counts, loc>>

\* the two band loops, xr.concat and assign_coords of one scene
LoadBands(y) ==
    /\ script = "download"
    /\ py[y].pc = "load"
    /\ LET fr == py[y]
           it == fr.items[fr.i]
           n == Len(Present(it, bands_10m)) + Len(Present(it, bands_20m))
       IN  \/ \* open_rasterio raises at the k-th band: "Scene failed"
              \E k \in 1 .. n :
                py' = [py EXCEPT ![y] = NextScene([fr EXCEPT !.nfetch = k], "failed_fetch")]
           \/ \* every band is read
              IF NoReference(it)
              THEN py' = [py EXCEPT ![y] =
                        NextScene([fr EXCEPT !.nfetch = FetchesBeforeNoReference],
                                  "failed_no_reference")]
              ELSE IF n = 0
                   THEN \* "No usable bands."
                        py' = [py EXCEPT ![y] = NextScene(fr, "no_bands")]
                   ELSE LET f == [fr EXCEPT !.nfetch = n]
                        IN  IF n # Len(BAND_LABELS)
                            THEN \* assign_coords raises: 6 labels for n bands
                                 py' = [py EXCEPT ![y] = NextScene(f, "failed_labels")]
                            ELSE py' = [py EXCEPT ![y] =
                                        [f EXCEPT !.pc = "mask",
                                                  !.scene = ConcatScene(Pieces(it))]]
    /\ UNCHANGED <<script, main_pc, files, bbox_ll, fut, all_counts, loc>>

\* the result of the masking block of process_year: the scene where the
\* class is 0, or the scene as it was when the shape does not match
ApplyPrediction(scene, pred) ==
    LET pred_mask == NormalizeMask(pred)
    IN  IF ShapeMismatch(pred_mask, scene)
        THEN [masked |-> FALSE, scene |-> scene]
        ELSE [masked |-> TRUE, scene |-> Where(scene, MaskKeep(pred_mask))]

\* the inner try block: predict_from_array and the keep mask
Mask(y) ==
    /\ script = "download"
    /\ py[y].pc = "mask"
    /\ \/ \* predict_from_array raises: "Cloud mask failed"
          py' = [py EXCEPT ![y].pc = "save"]
       \/ \E pred \in Predictions(py[y].scene.grid.h, py[y].scene.grid.w) :
            LET r == ApplyPrediction(py[y].scene, pred)
            IN  py' = [py EXCEPT ![y].pc = "save", ![y].scene = r.scene,
                                 ![y].pred = pred, ![y].masked = r.masked]
    /\ UNCHANGED <<script, main_pc, files, bbox_ll, fut, all_counts, loc>>

\* quantization and to_raster
Save(y) ==
    /\ script = "download"
    /\ py[y].pc = "save"
    /\ LET fr == py[y]
           it == fr.items[fr.i]
       IN  \/ /\ files' = Put(files, ScenePath(y, it), QuantizeScene(fr.scene))
              /\ py' = [py EXCEPT ![y] = [NextScene(fr, "ok") EXCEPT !.n_ok = fr.n_ok + 1]]
           \/ \* to_raster raises: "Scene failed"
              /\ py' = [py EXCEPT ![y] = NextScene(fr, "failed_write")]
              /\ UNCHANGED files
    /\ UNCHANGED <<script, main_pc, bbox_ll, fut, all_counts, loc>>


\* ===================================================== mask_scenes.py: main
\* output_dir / in_file.name
MaskedPath(in_path) == <<"scenes_masked">> \o Tail(in_path)

\* a directory holding the scene rasters download_scenes wrote for the records S
SceneDir(year, S) ==
    [q \in {ScenePath(year, it) : it \in S} |->
        RawScene(CHOOSE it \in S : ScenePath(year, it) = q)]

\* sorted(input_dir.glob(pattern)): the paths of the scenes of input_dir, in
\* the order of their file names
InputFiles(f) ==
    LET names == <<ScenePath(YearsEnd, ItemE), ScenePath(YearsEnd, ItemG)>>
    IN  SelectIdx(names, DOMAIN f, 1)

\* scene.where(mask_da), quantized: what mask_scene writes
MaskedScene(scene, mask_keep) == QuantizeScene(Where(scene, mask_keep))

\* what an earlier run of mask_scenes left in output_dir
EarlierMasked ==
    Put(<<>>, MaskedPath(ScenePath(YearsEnd, ItemE)),
        MaskedScene(RawScene(ItemE), <<FALSE, TRUE>>))

Merge(f, g) == [q \in DOMAIN f \cup DOMAIN g |-> IF q \in DOMAIN g THEN g[q] ELSE f[q]]

InitMask ==
    /\ script = "mask"
    /\ main_pc = "run"
    /\ \E S \in SUBSET {ItemE, ItemG}, out \in {<<>>, EarlierMasked} :
          files = Merge(SceneDir(YearsEnd, S), out)
    /\ \E overwrite \in BOOLEAN :
          loc = [i |-> 1, success |-> 0, failures |-> 0, overwrite |-> overwrite,
                 pred |-> None, outcomes |-> <<>>]
    /\ bbox_ll = None
    /\ fut = <<>>
    /\ all_counts = <<>>
    /\ py = <<>>

\* "No files matching": typer.Exit(code=0)
MaskNoFiles ==
    /\ script = "mask"
    /\ main_pc = "run"
    /\ InputFiles(files) = <<>>
    /\ main_pc' = "exit"
    /\ UNCHANGED <<script, files, bbox_ll, fut, all_counts, py, loc>>

\* the loop moves on; pred is what predict_from_array returned for the file
MaskOutcome(outcome, pred) ==
    [loc EXCEPT !.i = loc.i + 1, !.pred = pred,
                !.success = IF outcome = "ok" THEN loc.success + 1 ELSE loc.success,
                !.failures = IF outcome \in Failures THEN loc.failures + 1 ELSE loc.failures,
                !.outcomes = Append(@, outcome)]

\* utils/mask.py mask_scene(input_image, output_image): the path written and
\* its raster, or raised
mask_scene(scene, pred) ==
    LET pred_mask == NormalizeMask(pred)
    IN  IF ShapeMismatch(pred_mask, scene)
        THEN [raised |-> TRUE, scene |-> scene]
        ELSE [raised |-> FALSE, scene |-> MaskedScene(scene, MaskKeep(pred_mask))]

\* one iteration of the loop over the input files
MaskFile ==
    /\ script = "mask"
    /\ main_pc = "run"
    /\ loc.i <= Len(InputFiles(files))
    /\ LET in_file == InputFiles(files)[loc.i]
           out_file == MaskedPath(in_file)
           scene == files[in_file]
       IN  IF out_file \in DOMAIN files /\ ~loc.overwrite
           THEN \* "Skipping (exists)"
                /\ loc' = MaskOutcome("skipped", None)
                /\ UNCHANGED files
           ELSE \/ \* predict_from_array raises
                   /\ loc' = MaskOutcome("failed_classifier", None)
                   /\ UNCHANGED files
                \/ \E pred \in Predictions(scene.grid.h, scene.grid.w) :
                     LET r == mask_scene(scene, pred)
                     IN  IF r.raised
                         THEN /\ loc' = MaskOutcome("failed_shape", pred)
                              /\ UNCHANGED files
                         ELSE \/ /\ files' = Put(files, out_file, r.scene)
                                 /\ loc' = MaskOutcome("ok", pred)
                              \/ \* to_raster raises
                                 /\ loc' = MaskOutcome("failed_write", pred)
                                 /\ UNCHANGED files
    /\ UNCHANGED <<script, main_pc, bbox_ll, fut, all_counts, py>>

\* "Done. Success: ..., Failures: ..."
MaskDone ==
    /\ script = "mask"
    /\ main_pc = "run"
    /\ InputFiles(files) # <<>>
    /\ loc.i > Len(InputFiles(files))
    /\ main_pc' = "done"
    /\ UNCHANGED <<script, files, bbox_ll, fut, all_counts, py, loc>>

\* ========================================================= medians.py: main
\* The masked scene rasters a year directory can hold (file name, grid and one
\* value per pixel; band b of a pixel holds the value plus b - 1, and 0 is
\* nodata in every band).  T4 has no data in its last band at its first pixel,
\* and t5 lies on a grid shifted by one pixel.
Tif(name, x0, px) == [name |-> name, grid |-> [Grid10 EXCEPT !.x0 = x0], px |-> px]
TifPool == <<Tif("t1", 0, <<100, 0>>), Tif("t2", 0, <<200, 400>>), Tif("t3", 0, <<300, 0>>),
             Tif("t4", 0, <<301, 10000>>), Tif("t5", 10, <<500, 600>>)>>
TifRaster(t) ==
    [grid |-> t.grid,
     data |-> [b \in DOMAIN BAND_LABELS |->
                [p \in DOMAIN t.px |->
                    IF t.px[p] = 0 \/ (t.name = "t4" /\ b = 6 /\ p = 1) THEN 0
                    ELSE Min2(t.px[p] + b - 1, ClipMax)]]]
TifPath(year, name) == <<"scenes_masked", year, name>>
MedianPath(year) == <<"medians", year>>

\* a year directory with the rasters of TifPool whose index is in S
TifDir(year, S) ==
    [q \in {TifPath(year, TifPool[k].name) : k \in S} |->
        TifRaster(TifPool[CHOOSE k \in S : TifPath(year, TifPool[k].name) = q])]
TifSets == {S \in SUBSET DOMAIN TifPool : Cardinality(S) <= MaxTifs}

\* sorted(tif_dir.glob("*.tif"))
tif_files(f, year) ==
    SelectIdx([k \in DOMAIN TifPool |-> TifPath(year, TifPool[k].name)], DOMAIN f, 1)

\* the x and y coordinates of the pixels of a grid
Xs(grid) == {grid.x0 + grid.res * (c - 1) : c \in 1 .. grid.w}
Ys(grid) == {grid.y0 - grid.res * (r - 1) : r \in 1 .. grid.h}
PixelAt(grid, y, x) ==
    ((grid.y0 - y) \div grid.res) * grid.w + ((x - grid.x0) \div grid.res) + 1

\* open_rasterio(f, masked=True): the nodata value 0 reads as NaN
Masked(v) == IF v = 0 THEN NaN ELSE v

\* xr.concat(scenes, dim="time"): the scenes on the union of their
\* coordinates (the outer join of xarray's alignment), NaN where a scene has
\* no pixel
ConcatTime(scenes) ==
    LET xs == UNION {Xs(scenes[t].grid) : t \in DOMAIN scenes}
        ys == UNION {Ys(scenes[t].grid) : t \in DOMAIN scenes}
    IN  [xs |-> xs, ys |-> ys,
         data |-> [t \in DOMAIN scenes |-> [b \in DOMAIN scenes[t].data |->
            [c \in ys \X xs |->
                IF c[1] \in Ys(scenes[t].grid) /\ c[2] \in Xs(scenes[t].grid)
                THEN Masked(scenes[t].data[b][PixelAt(scenes[t].grid, c[1], c[2])])
                ELSE NaN]]]]

\* the k-th smallest element of a sequence of numbers
Kth(s, k) ==
    CHOOSE v \in Range(s) :
        /\ Cardinality({i \in DOMAIN s : s[i] < v}) < k
        /\ k <= Cardinality({i \in DOMAIN s : s[i] <= v})

\* the lower of the two middle values for an even count, doubled
Median2_Low(s) ==
    LET obs == SelectIdx(s, Range(s) \ {NaN}, 1)
        n == Len(obs)
    IN  IF n = 0 THEN NaN ELSE 2 * Kth(obs, (n + 1) \div 2)

\* nanmedian of a sequence, doubled: the middle value, or the mean of the
\* two middle values, of the entries that are not NaN
Median2(s) ==
    LET obs == SelectIdx(s, Range(s) \ {NaN}, 1)
        n == Len(obs)
    IN  IF n = 0 THEN NaN
        ELSE IF n % 2 = 1 THEN 2 * Kth(obs, (n + 1) \div 2)
             ELSE Kth(obs, n \div 2) + Kth(obs, (n \div 2) + 1)

\* stack.median(dim="time", skipna=True), values doubled
MedianOverTime(stack) ==
    [xs |-> stack.xs, ys |-> stack.ys,
     data |-> [b \in DOMAIN stack.data[1] |-> [c \in stack.ys \X stack.xs |->
                 Median2([t \in DOMAIN stack.data |-> stack.data[t][b][c]])]]]

\* da.clip(0, 10000).fillna(0).astype("uint16") of a doubled value
Uint16Of2(v2) ==
    LET clipped == IF v2 = NaN THEN NaN
                   ELSE IF v2 < 0 THEN 0 ELSE IF v2 > 2 * ClipMax THEN 2 * ClipMax ELSE v2
    IN  (FillNa(clipped) \div 2) % 65536
da_to_uint16(img) ==
    [img EXCEPT !.data = [b \in DOMAIN img.data |->
        [c \in DOMAIN img.data[b] |-> Uint16Of2(img.data[b][c])]]]

\* the median mosaic an earlier run of medians.py wrote for the rasters S
MosaicOf(S) ==
    da_to_uint16(MedianOverTime(ConcatTime([k \in 1 .. Len(S) |-> TifRaster(S[k])])))

MedLocals(year) ==
    [year |-> year, pc |-> "start", results |-> <<>>, scenes |-> <<>>, stack |-> None,
     median_img |-> None, median_u16 |-> None, barriers |-> <<>>]

InitMedians ==
    /\ script = "medians"
    /\ main_pc = "run"
    /\ \E S1 \in TifSets, S2 \in {{}, {1, 2, 3}},
          out \in {<<>>, Put(<<>>, MedianPath(YearsEnd), MosaicOf(<<TifPool[2]>>))} :
          files = Merge(Merge(TifDir(YearsStart, S1), TifDir(YearsEnd, S2)), out)
    /\ loc = MedLocals(YearsStart)
    /\ bbox_ll = None
    /\ fut = <<>>
    /\ all_counts = <<>>
    /\ py = <<>>

\* main moves on to the next year with results[year] set
MedNextYear(result) ==
    [MedLocals(loc.year + 1) EXCEPT !.results = Put(loc.results, loc.year, result)]

\* create_median_mosaic up to the loop that opens the rasters: None when the
\* output exists or there is nothing to load, else the scenes opened
MedLoad ==
    /\ script = "medians"
    /\ main_pc = "run"
    /\ loc.year <= YearsEnd
    /\ loc.pc = "start"
    /\ LET tifs == tif_files(files, loc.year)
       IN  IF MedianPath(loc.year) \in DOMAIN files \/ tifs = <<>>
           THEN loc' = MedNextYear("skipped")
           ELSE \E bad \in {0} \cup DOMAIN tifs :
                  \* open_rasterio raises for at most one file: "Failed to load"
                  LET ok == SelectIdx(tifs, Range(tifs) \ {IF bad = 0 THEN None ELSE tifs[bad]}, 1)
                  IN  IF ok = <<>>
                      THEN loc' = MedNextYear("skipped")
                      ELSE loc' = [loc EXCEPT !.pc = "concat",
                                              !.scenes = [k \in DOMAIN ok |-> files[ok[k]]]]
    /\ UNCHANGED <<script, main_pc, files, bbox_ll, fut, all_counts, py>>

\* xr.concat and chunk: the lazy stack
MedConcat ==
    /\ script = "medians"
    /\ main_pc = "run"
    /\ loc.pc = "concat"
    /\ loc' = [loc EXCEPT !.pc = "persist_stack", !.stack = ConcatTime(loc.scenes)]
    /\ UNCHANGED <<script, main_pc, files, bbox_ll, fut, all_counts, py>>

\* client.persist(stack); dask.distributed.wait(stack)
MedPersistStack ==
    /\ script = "medians"
    /\ main_pc = "run"
    /\ loc.pc = "persist_stack"
    /\ loc' = [loc EXCEPT !.pc = "median", !.barriers = Append(@, "stack")]
    /\ UNCHANGED <<script, main_pc, files, bbox_ll, fut, all_counts, py>>

\* stack.median(dim="time", skipna=True)
MedMedian ==
    /\ script = "medians"
    /\ main_pc = "run"
    /\ loc.pc = "median"
    /\ loc' = [loc EXCEPT !.pc = "persist_median", !.median_img = MedianOverTime(loc.stack)]
    /\ UNCHANGED <<script, main_pc, files, bbox_ll, fut, all_counts, py>>

\* the median handed on without persist and wait
MedPersistMedian_NoWait ==
    /\ script = "medians"
    /\ main_pc = "run"
    /\ loc.pc = "persist_median"
    /\ loc' = [loc EXCEPT !.pc = "quantize"]
    /\ UNCHANGED <<script, main_pc, files, bbox_ll, fut, all_counts, py>>

\* client.persist(median_img); dask.distributed.wait(median_img)
MedPersistMedian ==
    /\ script = "medians"
    /\ main_pc = "run"
    /\ loc.pc = "persist_median"
    /\ loc' = [loc EXCEPT !.pc = "quantize", !.barriers = Append(@, "median")]
    /\ UNCHANGED <<script, main_pc, files, bbox_ll, fut, all_counts, py>>

\* da_to_uint16(median_img), returned to main
MedQuantize ==
    /\ script = "medians"
    /\ main_pc = "run"
    /\ loc.pc = "quantize"
    /\ loc' = [loc EXCEPT !.pc = "save", !.median_u16 = da_to_uint16(loc.median_img)]
    /\ UNCHANGED <<script, main_pc, files, bbox_ll, fut, all_counts, py>>

\* save_da_to_tif and results[year]; to_raster may raise, and main has no
\* handler
MedSave ==
    /\ script = "medians"
    /\ main_pc = "run"
    /\ loc.pc = "save"
    /\ \/ /\ files' = Put(files, MedianPath(loc.year), loc.median_u16)
          /\ loc' = MedNextYear("ok")
          /\ UNCHANGED main_pc
       \/ /\ main_pc' = "raised"
          /\ UNCHANGED <<files, loc>>
    /\ UNCHANGED <<script, bbox_ll, fut, all_counts, py>>

\* the summary, client.close()
MedSummary ==
    /\ script = "medians"
    /\ main_pc = "run"
    /\ loc.year > YearsEnd
    /\ main_pc' = "done"
    /\ UNCHANGED <<script, files, bbox_ll, fut, all_counts, py, loc>>

\* ==================================================== calculate_tc.py: main
\* the tasseled-cap coefficients, times 10000
TcCoeffs ==
    [tcb |-> <<3037, 2793, 4743, 5585, 5082, 1863>>,
     tcg |-> <<-2848, -2435, -5436, 7243, 840, -1800>>,
     tcw |-> <<1509, 1973, 3279, 3406, -7112, -4572>>]
TcBands == <<"tcb", "tcg", "tcw">>

\* tc(c) with the bands without data left out of the sum
TcPixel_SkipNodata(c, v) ==
    LET w == [b \in DOMAIN v |-> IF v[b] = NaN THEN 0 ELSE v[b]]
    IN  IF \A b \in DOMAIN v : v[b] = 0 \/ v[b] = NaN THEN NaN
        ELSE c[1] * w[1] + c[2] * w[2] + c[3] * w[3] + c[4] * w[4] + c[5] * w[5] + c[6] * w[6]

\* tc(c) at one pixel, from the six raw band values v: the sum of
\* coefficient * (v / 10000), in units of 1e-8, NaN when a band is 0 or NaN
TcPixel(c, v) ==
    IF \E b \in DOMAIN v : v[b] = 0 \/ v[b] = NaN THEN NaN
    ELSE c[1] * v[1] + c[2] * v[2] + c[3] * v[3] + c[4] * v[4] + c[5] * v[5] + c[6] * v[6]

\* compute_tasseled_cap(da): the three bands TCB, TCG, TCW
compute_tasseled_cap(da) ==
    [xs |-> da.xs, ys |-> da.ys,
     data |-> [k \in DOMAIN TcBands |-> [c \in da.ys \X da.xs |->
                 TcPixel(TcCoeffs[TcBands[k]], [b \in DOMAIN da.data |-> da.data[b][c]])]]]

\* rioxarray.open_rasterio(in_file, masked=True) of a mosaic
OpenMasked(img) ==
    [img EXCEPT !.data = [b \in DOMAIN img.data |->
        [c \in DOMAIN img.data[b] |-> Masked(img.data[b][c])]]]

TcPath(year) == <<"tc", year>>

\* the median mosaics calculate_tc.py can find for a year
Mosaics == {MosaicOf(<<TifPool[1], TifPool[2]>>), MosaicOf(<<TifPool[2], TifPool[4]>>),
            MosaicOf(<<TifPool[3], TifPool[5]>>), MosaicOf(<<TifPool[4]>>)}

InitTc ==
    /\ script = "tc"
    /\ main_pc = "run"
    /\ \E m1 \in {<<>>} \cup {Put(<<>>, MedianPath(YearsStart), m) : m \in Mosaics},
          m2 \in {<<>>} \cup {Put(<<>>, MedianPath(YearsEnd), m) : m \in Mosaics},
          out \in {<<>>, Put(<<>>, TcPath(YearsEnd),
                             compute_tasseled_cap(OpenMasked(MosaicOf(<<TifPool[2]>>))))} :
          files = Merge(Merge(m1, m2), out)
    /\ loc = [year |-> YearsStart, outcomes |-> <<>>]
    /\ bbox_ll = None
    /\ fut = <<>>
    /\ all_counts = <<>>
    /\ py = <<>>

TcOutcome(outcome) == [loc EXCEPT !.year = loc.year + 1, !.outcomes = Append(@, outcome)]

\* one iteration of the loop over the years
TcYear ==
    /\ script = "tc"
    /\ main_pc = "run"
    /\ loc.year <= YearsEnd
    /\ LET in_file == MedianPath(loc.year)
           out_file == TcPath(loc.year)
       IN  IF in_file \notin DOMAIN files
           THEN \* "Missing median mosaic"
                /\ loc' = TcOutcome("missing")
                /\ UNCHANGED <<files, main_pc>>
           ELSE IF out_file \in DOMAIN files
                THEN \* "Already exists, skipping"
                     /\ loc' = TcOutcome("skipped")
                     /\ UNCHANGED <<files, main_pc>>
                ELSE \/ /\ files' = Put(files, out_file,
                                        compute_tasseled_cap(OpenMasked(files[in_file])))
                        /\ loc' = TcOutcome("ok")
                        /\ UNCHANGED main_pc
                     \/ \* compute or to_raster raises, and main has no handler
                        /\ main_pc' = "raised"
                        /\ UNCHANGED <<files, loc>>
    /\ UNCHANGED <<script, bbox_ll, fut, all_counts, py>>

\* "All tasseled cap mosaics saved."
TcDone ==
    /\ script = "tc"
    /\ main_pc = "run"
    /\ loc.year > YearsEnd
    /\ main_pc' = "done"
    /\ UNCHANGED <<script, files, bbox_ll, fut, all_counts, py, loc>>

\* ======================================================= utils/spatial/geom.py
\* The two functions of utils/spatial/geom.py (the same code as their copies
\* in utils/download.py) called by a client: detect_epsg_and_bounds on a
\* scene list and an optional AOI, then projected_intersection_ratio of each
\* scene against the AOI and CRS it returned.
\* an AOI of the southern hemisphere, in tenths of a degree
BBOX_SOUTH == <<100, -300, 110, -290>>

InitGeom ==
    /\ script = "geom"
    /\ main_pc = "run"
    /\ files = <<>>
    /\ bbox_ll \in {None, BBOX_LL, BBOX_SOUTH}
    /\ \E items \in Catalogs :
          loc = [items |-> items, pc |-> "detect", detected |-> [raised |-> FALSE],
                 ratios |-> <<>>]
    /\ fut = <<>>
    /\ all_counts = <<>>
    /\ py = <<>>

\* epsg, bbox_ll, bounds_proj = detect_epsg_and_bounds(items, bbox_ll)
GeomDetect ==
    /\ script = "geom"
    /\ main_pc = "run"
    /\ loc.pc = "detect"
    /\ LET d == detect_epsg_and_bounds(loc.items, bbox_ll)
       IN  /\ loc' = [loc EXCEPT !.pc = IF d.raised THEN "raised" ELSE "ratio",
                                  !.detected = d]
           /\ main_pc' = IF d.raised THEN "raised" ELSE "run"
    /\ UNCHANGED <<script, files, bbox_ll, fut, all_counts, py>>

\* projected_intersection_ratio(it.geometry, bbox_ll, epsg) of the next scene
GeomRatio ==
    /\ script = "geom"
    /\ main_pc = "run"
    /\ loc.pc = "ratio"
    /\ Len(loc.ratios) < Len(loc.items)
    /\ LET it == loc.items[Len(loc.ratios) + 1]
           r == projected_intersection_ratio(it.geometry, loc.detected.bbox_ll,
                                             loc.detected.epsg)
       IN  /\ loc' = [loc EXCEPT !.ratios = Append(@, r),
                                  !.pc = IF r.raised THEN "raised" ELSE "ratio"]
           /\ main_pc' = IF r.raised THEN "raised" ELSE "run"
    /\ UNCHANGED <<script, files, bbox_ll, fut, all_counts, py>>

Init == InitDownload \/ InitMask \/ InitMedians \/ InitTc \/ InitGeom

Next ==
    \/ \E y \in YEARS : StartYear(y)
    \/ \E y \in YEARS : Search(y)
    \/ \E y \in YEARS : Score(y)
    \/ \E y \in YEARS : LoadBands(y)
    \/ \E y \in YEARS : Mask(y)
    \/ \E y \in YEARS : Save(y)
    \/ \E y \in YEARS : ReturnYear(y)
    \/ \E y \in YEARS : Collect(y)
    \/ \E y \in YEARS : CollectRaise(y)
    \/ Propagate
    \/ Summary
    \/ MaskNoFiles
    \/ MaskFile
    \/ MaskDone
    \/ MedLoad
    \/ MedConcat
    \/ MedPersistStack
    \/ MedMedian
    \/ MedPersistMedian
    \/ MedQuantize
    \/ MedSave
    \/ MedSummary
    \/ TcYear
    \/ TcDone
    \/ GeomDetect
    \/ GeomRatio

Spec == Init /\ [][Next]_vars

\* ================================================================== properties
\* the scene of the frame f that the loop is working on
Current(f) == f.items[f.i]
InScene(f) == f.pc \in {"load", "mask", "save"}

\* the coverage ratio of a scene of frame f, which main scores against bbox_ll
RatioOf(f, it) == projected_intersection_ratio(it.geometry, bbox_ll, f.epsg_out)
\* ratio < 0.4 = 2 / 5
Under04(r) == 5 * r.num < 2 * r.den

C2_SceneFailureIsolated ==
    [][\A y \in YEARS :
          (script = "download" /\ bbox_ll = BBOX_LL
             /\ py[y].pc \in {"score", "load", "mask", "save"} /\ py'[y].pc = "idle")
          => Len(py[y].outcomes) = Len(py[y].items)]_vars

\* C3: in every multi-year orchestrator a failure while processing one year
\* does not propagate past that year: main never ends with the exception, it
\* goes on to the remaining years and to its summary.
C3_YearFailureIsolated ==
    script \in {"download", "medians", "tc"} => main_pc \notin {"raising", "raised"}

\* C4: in every stage a unit whose expected output file exists is skipped: no
\* work is done for it.  No band of a scene is read, and no raster of a year
\* is stacked, while the file they would write exists.
C4_ExistingOutputSkipped ==
    /\ script = "download" =>
          \A y \in YEARS : InScene(py[y]) => ScenePath(y, Current(py[y])) \notin DOMAIN files
    /\ script = "medians" =>
          ((loc.year <= YearsEnd /\ loc.pc # "start")
             => MedianPath(loc.year) \notin DOMAIN files)

\* the values that are not NaN of pixel c of band b over the time steps of a
\* stack, by time step
Observed(stack, b, c) == {t \in DOMAIN stack.data : stack.data[t][b][c] # NaN}

\* m2 is twice the median of the values v[t], t in T: with an odd count the
\* middle value, with an even count the mean of the two middle values
IsMedian2(m2, v, T) ==
    LET n == Cardinality(T)
    IN  IF n % 2 = 1
        THEN \E m \in T : \E Lo \in SUBSET (T \ {m}) :
                /\ 2 * Cardinality(Lo) = n - 1
                /\ \A l \in Lo : v[l] <= v[m]
                /\ \A h \in T \ (Lo \cup {m}) : v[m] <= v[h]
                /\ m2 = 2 * v[m]
        ELSE \E Lo \in SUBSET T :
                /\ 2 * Cardinality(Lo) = n
                /\ \A l \in Lo : \A h \in T \ Lo : v[l] <= v[h]
                /\ m2 = SetMax({v[l] : l \in Lo}) + SetMin({v[h] : h \in T \ Lo})

\* C5: for every (band, y, x) pixel of the median mosaic, over the non-nodata
\* observations of all time steps of the year stack: with an odd count the
\* output is the middle sorted value, with an even count the value before
\* quantization is the mean of the two middle values, with no observation the
\* output is nodata (0); 100, 200, 300 give 200.
C5_MedianOfObservations ==
    (script = "medians" /\ loc.year <= YearsEnd
       /\ loc.pc \in {"persist_median", "quantize", "save"}) =>
        \A b \in DOMAIN loc.stack.data[1] : \A c \in loc.stack.ys \X loc.stack.xs :
            LET T == Observed(loc.stack, b, c)
                v == [t \in DOMAIN loc.stack.data |-> loc.stack.data[t][b][c]]
                m2 == loc.median_img.data[b][c]
            IN  /\ IF T = {} THEN m2 = NaN ELSE IsMedian2(m2, v, T)
                /\ loc.pc = "save" =>
                      /\ T = {} => loc.median_u16.data[b][c] = 0
                      /\ Cardinality(T) % 2 = 1 => 2 * loc.median_u16.data[b][c] = m2
                      /\ v = <<100, 200, 300>> => loc.median_u16.data[b][c] = 200

\* the mosaic of three scenes with 100, 200, 300 at one pixel is ready to be
\* saved, another pixel of it has no observation, and 200 is its output
C5_Witness ==
    /\ script = "medians"
    /\ loc.year <= YearsEnd
    /\ loc.pc = "save"
    /\ Len(loc.stack.data) = 3
    /\ \E c \in loc.stack.ys \X loc.stack.xs :
          /\ [t \in DOMAIN loc.stack.data |-> loc.stack.data[t][1][c]] = <<100, 200, 300>>
          /\ loc.median_u16.data[1][c] = 200
    /\ \E c \in loc.stack.ys \X loc.stack.xs : Cardinality(Observed(loc.stack, 1, c)) = 1

\* C6: when the masked scene rasters of a year are not all on the same grid,
\* compositing fails and no mosaic is produced: the compositor never stacks
\* scenes of different grids onto a merged grid.
C6_GridMismatchFails ==
    (script = "medians" /\ loc.year <= YearsEnd /\ loc.pc # "start") =>
        \A j, k \in DOMAIN loc.scenes : loc.scenes[j].grid = loc.scenes[k].grid

\* the grid of the first band of the record that is read, in the order of the
\* two band loops
FirstBandGrid(it) ==
    LET p10 == Present(it, bands_10m)
        p20 == Present(it, bands_20m)
    IN  IF p10 # <<>> THEN open_clip(it, p10[1]).grid ELSE open_clip(it, p20[1]).grid

\* C7: the scene raster is on the grid of the first 10 m band read whenever
\* one is present; without a 10 m band the first 20 m band is the reference,
\* is not resampled, and the scene raster is produced on its native grid: no
\* scene fails for want of a reference.
C7_ReferenceGrid ==
    script = "download" =>
        \A y \in YEARS :
            /\ py[y].pc \in {"mask", "save"} => py[y].scene.grid = FirstBandGrid(Current(py[y]))
            /\ \A k \in DOMAIN py[y].outcomes :
                  py[y].outcomes[k].outcome # "failed_no_reference"

\* C8: when the classifier call raises or the shape of its normalized output
\* differs from the scene's, the scene is still quantized and persisted
\* unmasked: process_year goes on to save the scene as it was read, and
\* mask_scenes leaves the unmasked scene at the output path.
C8_MaskFailureKeepsScene ==
    /\ script = "download" =>
          \A y \in YEARS :
              (py[y].pc = "save" /\ ~py[y].masked)
                  => py[y].scene = ConcatScene(Pieces(Current(py[y])))
    /\ script = "mask" =>
          \A k \in DOMAIN loc.outcomes :
              loc.outcomes[k] \in {"failed_classifier", "failed_shape"} =>
                  LET in_file == InputFiles(files)[k]
                  IN  /\ MaskedPath(in_file) \in DOMAIN files
                      /\ files[MaskedPath(in_file)] = QuantizeScene(files[in_file])

\* the class map of a classifier output of shape (y, x), (1, y, x) or
\* (3, y, x): the array itself, its single channel, its channel of index 1
ClassOf(pred) ==
    IF Len(pred.shape) = 2 THEN pred.ch[1]
    ELSE IF pred.shape[1] = 1 THEN pred.ch[1] ELSE pred.ch[2]

\* C9: a pixel of a masked scene is kept if and only if its class in the
\* normalized class map is 0 ((1, y, x) reduced to its channel, (3, y, x) to
\* channel index 1, (y, x) as is), and every pixel that is not kept is nodata
\* in all six bands: NaN before quantization, 0 in the file mask_scenes writes.
C9_KeepMaskFromClassMap ==
    /\ script = "download" =>
          \A y \in YEARS :
              (py[y].pc = "save" /\ py[y].masked) =>
                  LET orig == ConcatScene(Pieces(Current(py[y])))
                      cls == ClassOf(py[y].pred)
                  IN  /\ DOMAIN py[y].scene.data = 1 .. 6
                      /\ \A b \in 1 .. 6 : \A p \in 1 .. NPix(orig.grid) :
                            py[y].scene.data[b][p] =
                                IF cls[p] = 0 THEN orig.data[b][p] ELSE NaN
    /\ script = "mask" =>
          ((loc.i > 1 /\ loc.outcomes[loc.i - 1] = "ok") =>
              LET in_file == InputFiles(files)[loc.i - 1]
                  out == files[MaskedPath(in_file)]
                  cls == ClassOf(loc.pred)
              IN  /\ DOMAIN out.data = 1 .. 6
                  /\ \A b \in 1 .. 6 : \A p \in 1 .. NPix(out.grid) :
                        out.data[b][p] = IF cls[p] = 0 THEN files[in_file].data[b][p] ELSE 0)

\* a three-channel output whose channel of index 1 differs from channel 0
\* has masked a scene: one pixel is kept with its value, another is nodata
C9_Witness ==
    /\ script = "download"
    /\ \E y \in YEARS :
          /\ py[y].pc = "save"
          /\ py[y].masked
          /\ py[y].pred.shape[1] = 3
          /\ py[y].pred.ch[1] # py[y].pred.ch[2]
          /\ \E p, q \in 1 .. NPix(py[y].scene.grid) :
                /\ py[y].pred.ch[2][p] = 0
                /\ py[y].scene.data[1][p] \notin {NaN, 0}
                /\ py[y].pred.ch[2][q] # 0
                /\ \A b \in 1 .. 6 : py[y].scene.data[b][q] = NaN

\* C10: when no AOI override is supplied, the resolver returns the union
\* bounding box of the scene bounding boxes, and every scene of the run is
\* scored against it: the check of a scene ends as its intersection ratio
\* with the union bounding box says.
C10_ScoredAgainstUnion ==
    [][\A y \in YEARS :
          (script = "download" /\ bbox_ll = None /\ py[y].pc = "score"
             /\ py[y].i <= Len(py[y].items) /\ py'[y] # py[y])
          => LET r == projected_intersection_ratio(Current(py[y]).geometry,
                                                   UnionBBox(py[y].items), py[y].epsg_out)
             IN  /\ py[y].bbox_ll_used = UnionBBox(py[y].items)
                 /\ IF r.raised THEN py'[y].pc = "idle"
                    ELSE IF BelowThreshold(r)
                         THEN /\ py'[y].pc = "score"
                              /\ py'[y].outcomes[py[y].i].outcome = "low_coverage"
                         ELSE py'[y].pc = "load"]_vars

\* the four corners of a lon/lat rectangle r = <<w, s, e, n>>
Corners(r) == {<<r[1], r[2]>>, <<r[1], r[4]>>, <<r[3], r[2]>>, <<r[3], r[4]>>}

\* the projection of every corner of aoi into epsg lies inside bounds
CornersInside(epsg, aoi, bounds) ==
    \A c \in Corners(aoi) :
        LET q == tx_transform(epsg, c[1], c[2])
        IN  /\ bounds[1] <= q[1] /\ q[1] <= bounds[3]
            /\ bounds[2] <= q[2] /\ q[2] <= bounds[4]

\* C11: the projected AOI bounds returned by detect_epsg_and_bounds enclose
\* the projections of all four corners (west/east x south/north) of the AOI
\* rectangle it returns.
C11_BoundsEncloseCorners ==
    /\ script = "geom" =>
          (loc.pc = "ratio" =>
              CornersInside(loc.detected.epsg, loc.detected.bbox_ll, loc.detected.bounds_proj))
    /\ script = "download" =>
          \A y \in YEARS :
              py[y].pc \in {"score", "load", "mask", "save"} =>
                  CornersInside(py[y].epsg_out, py[y].bbox_ll_used, py[y].bounds_out)

\* epsg is the working CRS prescribed for the scene list items and
\* the AOI aoi = <<w, s, e, n>> (tenths of a degree; the centroid longitude is
\* (w + e) / 20 degrees, so 6 * (zone - 1) <= lon + 180 < 6 * zone reads
\* 120 * (zone - 1) <= w + e + 3600 < 120 * zone)
IsWorkingCrs(epsg, items, aoi) ==
    LET exposing == {i \in DOMAIN items : "proj_epsg" \in DOMAIN items[i].properties}
    IN  IF exposing # {}
        THEN \E i \in exposing :
                /\ \A j \in exposing : i <= j
                /\ epsg = items[i].properties.proj_epsg
        ELSE \E zone \in 1 .. 60 :
                /\ 120 * (zone - 1) <= aoi[1] + aoi[3] + 3600
                /\ aoi[1] + aoi[3] + 3600 < 120 * zone
                /\ epsg = IF aoi[2] + aoi[4] >= 0 THEN 32600 + zone ELSE 32700 + zone

\* C12: the working CRS chosen by detect_epsg_and_bounds is the declared code
\* of the first scene in list order that exposes one; when no scene exposes
\* one it is the UTM code of zone floor((lon + 180) / 6) + 1 of the AOI
\* centroid, 32600 + zone when the centroid latitude is >= 0 and
\* 32700 + zone otherwise.
C12_WorkingCrs ==
    /\ script = "geom" =>
          (loc.pc = "ratio" =>
              IsWorkingCrs(loc.detected.epsg, loc.items, loc.detected.bbox_ll))
    /\ script = "download" =>
          \A y \in YEARS :
              py[y].pc \in {"score", "load", "mask", "save"} =>
                  IsWorkingCrs(py[y].epsg_out, py[y].items, py[y].bbox_ll_used)

\* no scene of the list exposes a code and the AOI lies in the southern
\* hemisphere: the resolver has returned the southern code of zone 32
C12_Witness ==
    /\ script = "geom"
    /\ loc.pc = "ratio"
    /\ \A i \in DOMAIN loc.items : "proj_epsg" \notin DOMAIN loc.items[i].properties
    /\ loc.detected.bbox_ll = BBOX_SOUTH
    /\ loc.detected.epsg = 32732

\* two lon/lat rectangles <<w, s, e, n>> with no point in common, and f
\* containing a
Disjoint(f, a) == f[3] < a[1] \/ a[3] < f[1] \/ f[4] < a[2] \/ a[4] < f[2]
Contains(f, a) == f[1] <= a[1] /\ f[2] <= a[2] /\ a[3] <= f[3] /\ a[4] <= f[4]

\* the ratio r = num / den returned for the footprint f and the AOI a is in
\* [0, 1], 0 when they are disjoint and 1 when f contains a
RatioWithinUnit(r, f, a) ==
    /\ r.den > 0
    /\ 0 <= r.num
    /\ r.num <= r.den
    /\ Disjoint(f, a) => r.num = 0
    /\ Contains(f, a) => r.num = r.den

\* C13: the intersection ratio projected_intersection_ratio returns lies in
\* [0, 1] for every footprint and AOI (of positive area); it is 0 when the
\* footprint and the AOI are disjoint and 1 when the footprint contains the
\* AOI.
C13_RatioRange ==
    script = "geom" =>
        \A k \in DOMAIN loc.ratios :
            ~loc.ratios[k].raised =>
                RatioWithinUnit(loc.ratios[k], loc.items[k].geometry, loc.detected.bbox_ll)

\* the scorer has returned 1 for a footprint that contains the AOI and
\* strictly less for the next one, which covers the AOI in part
C13_Witness ==
    /\ script = "geom"
    /\ Len(loc.ratios) = 2
    /\ Contains(loc.items[1].geometry, loc.detected.bbox_ll)
    /\ loc.items[1].geometry # loc.detected.bbox_ll
    /\ loc.ratios[1].num = loc.ratios[1].den
    /\ 0 < loc.ratios[2].num
    /\ loc.ratios[2].num < loc.ratios[2].den

\* the three tasseled-cap values of a pixel with the band values v (Blue,
\* Green, Red, NIR, SWIR1, SWIR2; integers in 0 .. 10000), in units of 1e-8:
\* the coefficients of the table times v / 10000
Brightness(v) ==
    3037 * v[1] + 2793 * v[2] + 4743 * v[3] + 5585 * v[4] + 5082 * v[5] + 1863 * v[6]
Greenness(v) ==
    0 - 2848 * v[1] - 2435 * v[2] - 5436 * v[3] + 7243 * v[4] + 840 * v[5] - 1800 * v[6]
Wetness(v) ==
    1509 * v[1] + 1973 * v[2] + 3279 * v[3] + 3406 * v[4] - 7112 * v[5] - 4572 * v[6]

\* the years for which calculate_tc.py has written a product in this run
TcWritten == {y \in YEARS : y - YearsStart + 1 \in DOMAIN loc.outcomes
                             /\ loc.outcomes[y - YearsStart + 1] = "ok"}

\* C14: at every pixel of a 6-band mosaic each of the three tasseled-cap
\* outputs is NaN when one of the six bands is 0 (nodata) there, and otherwise
\* the linear combination of the six bands, divided by 10000, with the
\* brightness, greenness and wetness coefficients; applying the transform
\* again to the same mosaic gives the same product.
C14_TasseledCap ==
    script = "tc" =>
        \A y \in TcWritten :
            LET in == files[MedianPath(y)]
                out == files[TcPath(y)]
            IN  /\ DOMAIN out.data = 1 .. 3
                /\ \A c \in in.ys \X in.xs :
                      LET v == [b \in 1 .. 6 |-> in.data[b][c]]
                      IN  IF \E b \in 1 .. 6 : v[b] = 0
                          THEN \A k \in 1 .. 3 : out.data[k][c] = NaN
                          ELSE /\ out.data[1][c] = Brightness(v)
                               /\ out.data[2][c] = Greenness(v)
                               /\ out.data[3][c] = Wetness(v)
                /\ compute_tasseled_cap(OpenMasked(in)) = out

\* a product is written for a mosaic with a pixel where only the last band
\* is 0 and a pixel with data in every band
C14_Witness ==
    /\ script = "tc"
    /\ \E y \in TcWritten :
          LET in == files[MedianPath(y)]
              out == files[TcPath(y)]
          IN  /\ \E c \in in.ys \X in.xs :
                    /\ in.data[6][c] = 0
                    /\ \A b \in 1 .. 5 : in.data[b][c] > 0
                    /\ out.data[1][c] = NaN
              /\ \E c \in in.ys \X in.xs :
                    /\ \A b \in 1 .. 6 : in.data[b][c] > 0
                    /\ out.data[2][c] # NaN

\* C15: detect_epsg_and_bounds fails whenever the scene list is empty (and
\* only then); in process_year a year whose search returns no scene is
\* skipped (it returns 0 with the note "No items for this year." and raises
\* nothing), and main goes on: with no year raised it is running or done, and
\* when it is done every year has its count.
C15_EmptySceneList ==
    /\ script = "geom" =>
          (loc.pc # "detect" => (loc.detected.raised <=> loc.items = <<>>))
    /\ script = "download" =>
          /\ \A y \in YEARS :
                fut[y].note = "no_items" =>
                    /\ fut[y].state \in {"returned", "collected"}
                    /\ fut[y].n = 0
                    /\ fut[y].state = "collected" => all_counts[y] = 0
          /\ (\A y \in YEARS : fut[y].state # "raised") =>
                /\ main_pc \in {"run", "done"}
                /\ main_pc = "done" => DOMAIN all_counts = YEARS

\* the search of the first year returned no scene, the year is collected
\* with count 0 and the next year is in its scene loop
C15_Witness ==
    /\ script = "download"
    /\ fut[YearsStart].note = "no_items"
    /\ fut[YearsStart].state = "collected"
    /\ all_counts[YearsStart] = 0
    /\ py[YearsEnd].pc = "save"

\* C16: in create_median_mosaic the stack is persisted and awaited, then the
\* median is computed, then the median is persisted and awaited, and only
\* then is the result quantized: the barriers complete in this order, there
\* is no median before the first barrier and no quantized image before the
\* second, and the mosaic is returned (and saved) after both.
C16_BarrierOrder ==
    script = "medians" =>
        /\ loc.barriers \in {<<>>, <<"stack">>, <<"stack", "median">>}
        /\ loc.barriers # <<>> => loc.stack # None
        /\ loc.median_img # None => loc.barriers # <<>>
        /\ Len(loc.barriers) = 2 => loc.median_img # None
        /\ loc.median_u16 # None => Len(loc.barriers) = 2
        /\ loc.pc = "save" => /\ Len(loc.barriers) = 2
                              /\ loc.median_u16 # None
        /\ \A y \in YEARS :
              (y \in DOMAIN loc.results /\ loc.results[y] = "ok") => y < loc.year

\* the quantized mosaic of a year is back in main, after both barriers
C16_Witness ==
    /\ script = "medians"
    /\ loc.pc = "save"
    /\ loc.barriers = <<"stack", "median">>
    /\ loc.median_u16 # None
    /\ loc.median_img # None

\* the value written for the float value v: 0 for nodata, else v clipped to
\* the nearest bound of [0, 10000]
Written(v) == IF v = NaN THEN 0 ELSE IF v < 0 THEN 0 ELSE IF v > 10000 THEN 10000 ELSE v

\* every value of the scene rasters and median mosaics in storage f
InRange(f) ==
    \A q \in DOMAIN f :
        q[1] \in {"scenes_raw", "scenes_masked", "medians"} =>
            \A b \in DOMAIN f[q].data : \A p \in DOMAIN f[q].data[b] :
                f[q].data[b][p] \in 0 .. 10000

\* C17: every value written to a scene raster or to a median mosaic lies in
\* [0, 10000]: each written value is the value before quantization clipped
\* to the nearest bound, and 0 where the pixel has no data, in process_year
\* and mask_scene (fill, then clip) as in da_to_uint16 (clip, then fill).
C17_WrittenRange ==
    [][/\ InRange(files)
       /\ InRange(files')
       /\ \A y \in YEARS :
             (script = "download" /\ py[y].pc = "save" /\ py'[y].n_ok = py[y].n_ok + 1) =>
                 LET out == files'[ScenePath(y, Current(py[y]))]
                 IN  \A b \in DOMAIN out.data : \A p \in DOMAIN out.data[b] :
                         out.data[b][p] = Written(py[y].scene.data[b][p])
       /\ (script = "mask" /\ loc'.success = loc.success + 1) =>
             LET in_file == InputFiles(files)[loc.i]
                 out == files'[MaskedPath(in_file)]
                 cls == ClassOf(loc'.pred)
             IN  \A b \in DOMAIN out.data : \A p \in DOMAIN out.data[b] :
                     out.data[b][p] =
                         Written(IF cls[p] = 0 THEN files[in_file].data[b][p] ELSE NaN)
       /\ (script = "medians" /\ loc.pc = "save" /\ files' # files) =>
             LET out == files'[MedianPath(loc.year)]
             IN  \A b \in DOMAIN out.data : \A c \in DOMAIN out.data[b] :
                     LET m2 == loc.median_img.data[b][c]
                     IN  out.data[b][c] = IF m2 = NaN THEN 0 ELSE Written(m2 \div 2)
      ]_vars

\* process_year has written a masked scene with a value of 12000 clipped to
\* 10000 and a masked pixel written as 0
C17_Witness ==
    /\ script = "download"
    /\ \E y \in YEARS :
          /\ \E k \in DOMAIN py[y].outcomes :
                /\ py[y].outcomes[k].id = "G"
                /\ py[y].outcomes[k].outcome = "ok"
                /\ py[y].outcomes[k].masked
          /\ ScenePath(y, ItemG) \in DOMAIN files
          /\ files[ScenePath(y, ItemG)].data[3][2] = 10000
          /\ files[ScenePath(y, ItemG)].data[1][1] = 0

\* the values a pixel of the band read from asset BAND_ORDER[b] of the record
\* it can hold, and NaN for a masked pixel
SourceValues(it, b) == Range(open_clip(it, BAND_ORDER[b]).data) \cup {NaN}
AllAssets(it) == Range(BAND_ORDER) \subseteq it.assets

\* C18: every scene raster process_year persists has exactly six bands, and
\* band b (Blue, Green, Red, NIR, SWIR1, SWIR2) holds data of the b-th asset
\* (B02, B03, B04, B08, B11, B12); a scene with an absent asset is never
\* written: it is skipped when no band was read, and failed otherwise.
C18_SixBandsInOrder ==
    script = "download" =>
        \A y \in YEARS :
            /\ py[y].pc \in {"mask", "save"} =>
                  /\ AllAssets(Current(py[y]))
                  /\ DOMAIN py[y].scene.data = 1 .. 6
                  /\ \A b \in 1 .. 6 : \A p \in DOMAIN py[y].scene.data[b] :
                        py[y].scene.data[b][p] \in SourceValues(Current(py[y]), b)
            /\ \A k \in DOMAIN py[y].outcomes :
                  LET it == py[y].items[k]
                      o == py[y].outcomes[k].outcome
                  IN  /\ o = "ok" =>
                            /\ AllAssets(it)
                            /\ ScenePath(y, it) \in DOMAIN files
                            /\ DOMAIN files[ScenePath(y, it)].data = 1 .. 6
                            /\ \A b \in 1 .. 6 :
                                  \A p \in DOMAIN files[ScenePath(y, it)].data[b] :
                                      files[ScenePath(y, it)].data[b][p]
                                          \in {Written(v) : v \in SourceValues(it, b)}
                      /\ o = "no_bands" => it.assets \cap Range(BAND_ORDER) = {}
                      /\ (~AllAssets(it) /\ o \notin {"low_coverage", "no_bands"})
                            => o \in Failures

\* a scene with all six assets is written, and the next one, without its
\* B08 asset, has failed with nothing written for it
C18_Witness ==
    /\ script = "download"
    /\ \E y \in YEARS :
          /\ Len(py[y].outcomes) = 2
          /\ py[y].outcomes[1].outcome = "ok"
          /\ AllAssets(py[y].items[1])
          /\ py[y].items[2].assets = Range(BAND_ORDER) \ {"B08_10m"}
          /\ py[y].outcomes[2].outcome = "failed_labels"
          /\ ScenePath(y, py[y].items[2]) \notin DOMAIN files
====
